---- MODULE Spec2Model ----
(***************************************************************************)
(* Shader expression and code-generation subsystem of ggdraft              *)
(* (src/src/gfx/shader_gen/*.rs and src/src/gfx/input_layout.rs).          *)
(*                                                                         *)
(* Two specifications share this module:                                   *)
(*   SpecBuild  the expression builders (ShaderMath / ShaderVector /       *)
(*              ShaderTexture) applied to operand expressions;             *)
(*   Spec       one call of InputLayout::generate_vertex_fragment_shaders, *)
(*              the two callbacks acting on the registries step by step.   *)
(***************************************************************************)
EXTENDS Integers, Sequences, FiniteSets, TLC

VARIABLES
    \* ---- SpecBuild: the expression builders
    cur,        \* the expression held by the caller (result of the last accepted call)
    last,       \* the last builder call: operation, operands, outcome
    \* ---- Spec: one generate call
    pc,         \* position inside generate_vertex_fragment_shaders
    layout,     \* VertexLayout::inputs of the InputLayout
    inputs,     \* ShaderInputs handed to the running callback
    parameters, \* ShaderParameters of the running stage
    outputs,    \* ShaderOutputs of the running stage
    vertex,     \* what __generate_vertex_shader returned (source, fragment inputs, parameters)
    fragment,   \* what __generate_fragment_shader returned (source, parameters)
    result,     \* what generate returned: "none", "ok", an error, or "panic"
    calls,      \* how often each callback was invoked
    \* ---- SpecProgram: the program created from the generated shaders
    program     \* what Program::__new returned: "none", "ok" with its parameters, "err", "panic"

vars ==
    <<cur, last, pc, layout, inputs, parameters, outputs, vertex, fragment, result, calls,
      program>>
buildVars == <<cur, last>>
genVars ==
    <<pc, layout, inputs, parameters, outputs, vertex, fragment, result, calls, program>>

(***************************************************************************)
(* Bounds                                                                  *)
(***************************************************************************)
\* Depth of the expression trees the builders are applied to.
MaxDepth == 1

(***************************************************************************)
(* shader_type.rs: ShaderType                                              *)
(***************************************************************************)
ShaderType == {"I32", "F32", "Vec2", "Vec3", "Vec4", "Mat4", "Sampler2D"}

\* Option<usize>, Option<ShaderType>
SomeN(n) == [some |-> TRUE, v |-> n]
NoneN == [some |-> FALSE, v |-> 0]
SomeT(t) == [some |-> TRUE, v |-> t]
NoneT == [some |-> FALSE, v |-> "None"]

\* anyhow::Error: the message kind, and the origin the message is decorated with
\* (origin_object / origin_pair / origin_operation): a side and an operation name.
Origin(side, op) == [side |-> side, op |-> op]
NoOrigin == Origin("", "")
Error(msg, origin) == [msg |-> msg, side |-> origin.side, op |-> origin.op]
NoError == Error("", NoOrigin)

\* Result<ShaderType>, Result<()>
OkT(t) == [ok |-> TRUE, ty |-> t, err |-> NoError]
ErrT(e) == [ok |-> FALSE, ty |-> "None", err |-> e]
OkUnit == [ok |-> TRUE, err |-> NoError]
ErrUnit(e) == [ok |-> FALSE, err |-> e]

location_count(self) ==
    IF self = "Mat4" THEN 4 ELSE 1

glsl_name(self) ==
    CASE self = "I32" -> "int"
      [] self = "F32" -> "float"
      [] self = "Vec2" -> "vec2"
      [] self = "Vec3" -> "vec3"
      [] self = "Vec4" -> "vec4"
      [] self = "Mat4" -> "mat4"
      [] self = "Sampler2D" -> "sampler2D"

component_count(self) ==
    CASE self \in {"I32", "F32"} -> SomeN(1)
      [] self = "Vec2" -> SomeN(2)
      [] self = "Vec3" -> SomeN(3)
      [] self = "Vec4" -> SomeN(4)
      [] self = "Mat4" -> SomeN(16)
      [] self = "Sampler2D" -> NoneN

component_type(self) ==
    CASE self \in {"I32", "F32"} -> SomeT(self)
      [] self \in {"Vec2", "Vec3", "Vec4", "Mat4"} -> SomeT("F32")
      [] self = "Sampler2D" -> NoneT

ensure_vector_or_scalar(self, origin_object) ==
    IF component_type(self).some
    THEN OkT(component_type(self).v)
    ELSE ErrT(Error("is not a vector or scalar type", origin_object))

ensure_vector_or_scalar_f32(self, origin_object) ==
    IF component_count(self).some /\ component_type(self) = SomeT("F32")
    THEN OkT(self)
    ELSE ErrT(Error("is not f32 or a Vector type", origin_object))

ensure_vector(self, origin_object) ==
    IF component_count(self).some
    THEN IF component_count(self).v > 1
         THEN OkT(self)
         ELSE ErrT(Error("is not a Vector type", origin_object))
    ELSE ErrT(Error("is not a Vector type", origin_object))

ensure_vector_f32(self, origin_object) ==
    IF component_count(self).some
    THEN IF component_count(self).v > 1 /\ component_type(self) = SomeT("F32")
         THEN OkT(self)
         ELSE ErrT(Error("is not a Vector type of f32", origin_object))
    ELSE ErrT(Error("is not a Vector type of f32", origin_object))

ensure_scalar(self, origin_object) ==
    IF component_count(self) = SomeN(1)
    THEN OkT(self)
    ELSE ErrT(Error("is not a scalar type", origin_object))

ensure_matches(self, other, origin_pair) ==
    IF self = other
    THEN OkUnit
    ELSE ErrUnit(Error("do not match", origin_pair))

ensure_type(self, expected, origin_object) ==
    IF self = expected
    THEN OkUnit
    ELSE ErrUnit(Error("was type but expected type", origin_object))

unwrap_or(opt, default) == IF opt.some THEN opt.v ELSE default

ensure_math_compatible(self, other, origin_operation) ==
    LET left_name == Origin("left side of", origin_operation)
        right_name == Origin("right side of", origin_operation)
        pair_name == Origin("left and right sides of", origin_operation)
        self_component == ensure_vector_or_scalar(self, left_name)
        other_component == ensure_vector_or_scalar(other, right_name)
        self_count == unwrap_or(component_count(self), 1)
        other_count == unwrap_or(component_count(other), 1)
    IN  IF ~self_component.ok THEN ErrUnit(self_component.err)
        ELSE IF ~other_component.ok THEN ErrUnit(other_component.err)
        ELSE IF ~ensure_matches(self_component.ty, other_component.ty, pair_name).ok
             THEN ensure_matches(self_component.ty, other_component.ty, pair_name)
        ELSE IF self_count = 1 \/ other_count = 1 THEN OkUnit
        ELSE IF self_count = other_count THEN OkUnit
        ELSE ErrUnit(Error("have invalid types",
                           Origin("Left and right sides of", origin_operation)))

(***************************************************************************)
(* shader_expression.rs: ShaderOperation / ShaderExpression                *)
(***************************************************************************)
\* A node: the operation tag, its child expressions, and for the leaves the
\* name and type (Input, Uniform) or the literal (I32, F32).
Node(op, args) == [op |-> op, args |-> args, name |-> "", ty |-> "None", val |-> ""]
Input(name, value_type) ==
    [op |-> "Input", args |-> <<>>, name |-> name, ty |-> value_type, val |-> ""]
Uniform(name, value_type) ==
    [op |-> "Uniform", args |-> <<>>, name |-> name, ty |-> value_type, val |-> ""]
LitI32(v) == [op |-> "I32", args |-> <<>>, name |-> "", ty |-> "None", val |-> v]
LitF32(v) == [op |-> "F32", args |-> <<>>, name |-> "", ty |-> "None", val |-> v]
\* From<Vector2<f32>>: ShaderOperation::Vec2(x, y), the components as operands
LitVec2(x, y) ==
    [op |-> "Vec2", args |-> <<LitF32(x), LitF32(y)>>, name |-> "", ty |-> "None", val |-> ""]
NoExpr == Node("None", <<>>)

MaxOf(S) == CHOOSE m \in S : \A x \in S : x <= m

RECURSIVE Depth(_)
Depth(e) ==
    IF e.args = <<>> THEN 0
    ELSE 1 + MaxOf({Depth(e.args[i]) : i \in DOMAIN e.args})

WrongType(side, op) == ErrT(Error("operation has wrong type", Origin(side, op)))

RECURSIVE shader_type(_)
shader_type(self) ==
    LET op == self.op
        left == shader_type(self.args[1])
        right == shader_type(self.args[2])
    IN  CASE op \in {"Input", "Uniform"} -> OkT(self.ty)
          [] op = "I32" -> OkT("I32")
          [] op = "F32" -> OkT("F32")
          [] op = "Vec2" -> OkT("Vec2")
          [] op = "Vec3" -> OkT("Vec3")
          [] op = "Vec4" -> OkT("Vec4")
          [] op = "Append" ->
                IF ~left.ok THEN left
                ELSE IF left.ty \in {"I32", "F32"} THEN
                    IF ~right.ok THEN right
                    ELSE IF right.ty \in {"I32", "F32"} THEN OkT("Vec2")
                    ELSE IF right.ty = "Vec2" THEN OkT("Vec3")
                    ELSE IF right.ty = "Vec3" THEN OkT("Vec4")
                    ELSE WrongType("Right side of", "append")
                ELSE IF left.ty = "Vec2" THEN
                    IF ~right.ok THEN right
                    ELSE IF right.ty \in {"I32", "F32"} THEN OkT("Vec3")
                    ELSE IF right.ty = "Vec2" THEN OkT("Vec4")
                    ELSE WrongType("Right side of", "append")
                ELSE IF left.ty = "Vec3" THEN
                    IF ~right.ok THEN right
                    ELSE IF right.ty \in {"I32", "F32"} THEN OkT("Vec4")
                    ELSE WrongType("Right side of", "append")
                ELSE WrongType("Left side of", "append")
          [] op = "Mul" ->
                IF ~left.ok THEN left
                ELSE IF left.ty = "Mat4" THEN
                    IF ~right.ok THEN right
                    ELSE IF right.ty = "Vec4" THEN OkT("Vec4")
                    ELSE IF right.ty = "Mat4" THEN OkT("Mat4")
                    ELSE WrongType("Right side of", "mul")
                ELSE left
          [] op \in {"Add", "Sub", "Div", "Pow", "Rem", "Neg", "Abs", "Sign", "Floor",
                     "Ceil", "Round", "Min", "Max", "Clamp", "Mix", "Normalized"} -> left
          [] op = "Dot" -> OkT("F32")
          [] op = "Cross" -> OkT("Vec3")
          [] op = "Length" -> OkT("F32")
          [] op = "Sample" -> OkT("Vec4")

(***************************************************************************)
(* shader_expression.rs: the builders.  A builder returns a ShaderExpression *)
(* (not a Result): every failed check is unwrapped, which panics.          *)
(***************************************************************************)
Accept(node) == [kind |-> "ok", node |-> node, err |-> NoError]
Panic(e) == [kind |-> "panic", node |-> NoExpr, err |-> e]

\* Result::unwrap followed by the rest of the builder
unwrap(r, rest) == IF r.ok THEN rest ELSE Panic(r.err)

\* mutant of append: the limit of 4 components is not enforced
append_unlimited(a, b) ==
    LET a_type == shader_type(a)
        b_type == shader_type(b)
    IN  unwrap(a_type, unwrap(b_type,
        unwrap(ensure_math_compatible(a_type.ty, b_type.ty, "append"),
        Accept(Node("Append", <<a, b>>)))))

append(a, b) ==
    LET a_type == shader_type(a)
        b_type == shader_type(b)
        total_components == component_count(a_type.ty).v + component_count(b_type.ty).v
    IN  unwrap(a_type, unwrap(b_type,
        unwrap(ensure_math_compatible(a_type.ty, b_type.ty, "append"),
        IF total_components > 4
        THEN Panic(Error("Cannot create vector with more than 4 components", NoOrigin))
        ELSE Accept(Node("Append", <<a, b>>)))))

add(a, b) ==
    LET a_type == shader_type(a)
        b_type == shader_type(b)
    IN  unwrap(a_type, unwrap(b_type,
        unwrap(ensure_math_compatible(a_type.ty, b_type.ty, "add"),
        Accept(Node("Add", <<a, b>>)))))

sub(a, b) ==
    LET a_type == shader_type(a)
        b_type == shader_type(b)
    IN  unwrap(a_type, unwrap(b_type,
        unwrap(ensure_math_compatible(a_type.ty, b_type.ty, "sub"),
        Accept(Node("Sub", <<a, b>>)))))

mul(a, b) ==
    LET a_type == shader_type(a)
        b_type == shader_type(b)
    IN  unwrap(a_type, unwrap(b_type,
        unwrap(ensure_math_compatible(a_type.ty, b_type.ty, "mul"),
        Accept(Node("Mul", <<a, b>>)))))

div(a, b) ==
    LET a_type == shader_type(a)
        b_type == shader_type(b)
    IN  unwrap(a_type, unwrap(b_type,
        unwrap(ensure_math_compatible(a_type.ty, b_type.ty, "div"),
        Accept(Node("Div", <<a, b>>)))))

pow(a, b) ==
    LET a_type == shader_type(a)
        b_type == shader_type(b)
    IN  unwrap(a_type, unwrap(b_type,
        unwrap(ensure_vector_or_scalar_f32(a_type.ty, Origin("left side of", "pow")),
        unwrap(ensure_type(b_type.ty, "F32", Origin("right side of", "pow")),
        Accept(Node("Pow", <<a, b>>))))))

rem(a, b) ==
    LET a_type == shader_type(a)
        b_type == shader_type(b)
        a_component == ensure_vector_or_scalar(a_type.ty, Origin("left side of", "rem"))
    IN  unwrap(a_type, unwrap(b_type,
        unwrap(a_component,
        unwrap(ensure_matches(a_component.ty, b_type.ty,
                   Origin("component/scalar of left side and right side of", "rem")),
        Accept(Node("Rem", <<a, b>>))))))

\* mutant of neg: the error is decorated with the name of another operation
neg_mislabelled(a) ==
    LET a_type == shader_type(a)
    IN  unwrap(a_type,
        unwrap(ensure_vector_or_scalar(a_type.ty, Origin("operand of", "abs")),
        Accept(Node("Neg", <<a>>))))

neg(a) ==
    LET a_type == shader_type(a)
    IN  unwrap(a_type,
        unwrap(ensure_vector_or_scalar(a_type.ty, Origin("operand of", "neg")),
        Accept(Node("Neg", <<a>>))))

abs(a) ==
    LET a_type == shader_type(a)
    IN  unwrap(a_type,
        unwrap(ensure_vector_or_scalar(a_type.ty, Origin("operand of", "abs")),
        Accept(Node("Abs", <<a>>))))

sign(a) ==
    LET a_type == shader_type(a)
    IN  unwrap(a_type,
        unwrap(ensure_vector_or_scalar(a_type.ty, Origin("operand of", "sign")),
        Accept(Node("Sign", <<a>>))))

floor(a) ==
    LET a_type == shader_type(a)
    IN  unwrap(a_type,
        unwrap(ensure_vector_or_scalar_f32(a_type.ty, Origin("operand of", "floor")),
        Accept(Node("Floor", <<a>>))))

ceil(a) ==
    LET a_type == shader_type(a)
    IN  unwrap(a_type,
        unwrap(ensure_vector_or_scalar_f32(a_type.ty, Origin("operand of", "ceil")),
        Accept(Node("Ceil", <<a>>))))

round(a) ==
    LET a_type == shader_type(a)
    IN  unwrap(a_type,
        unwrap(ensure_vector_or_scalar_f32(a_type.ty, Origin("operand of", "round")),
        Accept(Node("Round", <<a>>))))

min(a, b) ==
    LET a_type == shader_type(a)
        b_type == shader_type(b)
    IN  unwrap(a_type, unwrap(b_type,
        unwrap(ensure_math_compatible(a_type.ty, b_type.ty, "min"),
        Accept(Node("Min", <<a, b>>)))))

max(a, b) ==
    LET a_type == shader_type(a)
        b_type == shader_type(b)
    IN  unwrap(a_type, unwrap(b_type,
        unwrap(ensure_math_compatible(a_type.ty, b_type.ty, "max"),
        Accept(Node("Max", <<a, b>>)))))

clamp(a, b, c) ==
    LET a_type == shader_type(a)
        b_type == shader_type(b)
        c_type == shader_type(c)
    IN  unwrap(a_type, unwrap(b_type, unwrap(c_type,
        unwrap(ensure_vector_or_scalar(a_type.ty, Origin("argument 'self' of", "clamp")),
        unwrap(ensure_matches(a_type.ty, b_type.ty,
                   Origin("arguments 'self' and 'min' of", "clamp")),
        unwrap(ensure_matches(a_type.ty, c_type.ty,
                   Origin("arguments 'self' and 'max' of", "clamp")),
        Accept(Node("Clamp", <<a, b, c>>))))))))

mix(a, b, c) ==
    LET a_type == shader_type(a)
        b_type == shader_type(b)
        c_type == shader_type(c)
    IN  unwrap(a_type, unwrap(b_type, unwrap(c_type,
        unwrap(ensure_vector_or_scalar_f32(a_type.ty, Origin("argument 'self' of", "mix")),
        unwrap(ensure_matches(a_type.ty, b_type.ty,
                   Origin("arguments 'self' and 'other' of", "mix")),
        unwrap(ensure_type(c_type.ty, "F32", Origin("argument 'factor' of", "mix")),
        Accept(Node("Mix", <<a, b, c>>))))))))

\* mutant of dot: the two operands are not compared
dot_unmatched(a, b) ==
    LET a_type == shader_type(a)
        b_type == shader_type(b)
    IN  unwrap(a_type, unwrap(b_type,
        unwrap(ensure_vector_f32(a_type.ty, Origin("argument 'self' of", "dot")),
        Accept(Node("Dot", <<a, b>>)))))

dot(a, b) ==
    LET a_type == shader_type(a)
        b_type == shader_type(b)
    IN  unwrap(a_type, unwrap(b_type,
        unwrap(ensure_vector_f32(a_type.ty, Origin("argument 'self' of", "dot")),
        unwrap(ensure_matches(a_type.ty, b_type.ty,
                   Origin("arguments 'self' and 'other' of", "dot")),
        Accept(Node("Dot", <<a, b>>))))))

cross(a, b) ==
    LET a_type == shader_type(a)
        b_type == shader_type(b)
    IN  unwrap(a_type, unwrap(b_type,
        unwrap(ensure_vector_f32(a_type.ty, Origin("argument 'self' of", "cross")),
        unwrap(ensure_matches(a_type.ty, b_type.ty,
                   Origin("arguments 'self' and 'other' of", "cross")),
        Accept(Node("Cross", <<a, b>>))))))

length(a) ==
    LET a_type == shader_type(a)
    IN  unwrap(a_type,
        unwrap(ensure_vector_f32(a_type.ty, Origin("argument 'self' of", "length")),
        Accept(Node("Length", <<a>>))))

normalized(a) ==
    LET a_type == shader_type(a)
    IN  unwrap(a_type,
        unwrap(ensure_vector_f32(a_type.ty, Origin("argument 'self' of", "normalized")),
        Accept(Node("Normalized", <<a>>))))

\* mutant of sample: the level and the uv operands change places in the node
sample_swapped(a, b, c) ==
    LET a_type == shader_type(a)
        b_type == shader_type(b)
        c_type == shader_type(c)
    IN  unwrap(a_type, unwrap(b_type, unwrap(c_type,
        unwrap(ensure_type(a_type.ty, "Sampler2D", Origin("argument 'self' of", "sample")),
        unwrap(ensure_type(b_type.ty, "Vec2", Origin("argument 'uv' of", "sample")),
        unwrap(ensure_type(c_type.ty, "F32", Origin("argument 'level' of", "sample")),
        Accept(Node("Sample", <<a, c, b>>))))))))

sample(a, b, c) ==
    LET a_type == shader_type(a)
        b_type == shader_type(b)
        c_type == shader_type(c)
    IN  unwrap(a_type, unwrap(b_type, unwrap(c_type,
        unwrap(ensure_type(a_type.ty, "Sampler2D", Origin("argument 'self' of", "sample")),
        unwrap(ensure_type(b_type.ty, "Vec2", Origin("argument 'uv' of", "sample")),
        unwrap(ensure_type(c_type.ty, "F32", Origin("argument 'level' of", "sample")),
        Accept(Node("Sample", <<a, b, c>>))))))))

(***************************************************************************)
(* shader_expression.rs: Display for ShaderExpression.  Rendering aborts   *)
(* (unimplemented!) on an Append node that has no vector type and on a     *)
(* Sample node whose texture operand is not a uniform reference.           *)
(***************************************************************************)
RECURSIVE fmt_panics(_)
fmt_panics(self) ==
    \/ /\ self.op = "Append"
       /\ ~(shader_type(self).ok /\ shader_type(self).ty \in {"Vec2", "Vec3", "Vec4"})
    \/ /\ self.op = "Sample"
       /\ self.args[1].op # "Uniform"
    \/ \E i \in DOMAIN self.args :
          /\ ~(self.op = "Sample" /\ i = 1)
          /\ fmt_panics(self.args[i])

SHADER_INPUT_PREFIX == "input_"
SHADER_UNIFORM_PREFIX == "_uniform_"
SHADER_OUTPUT_PREFIX == "_output_"

\* Display of an f32 literal: Rust writes a whole number without a fraction
f32_display(v) ==
    CASE v = "1.0" -> "1"
      [] v = "0.0" -> "0"
      [] OTHER -> v

\* the text Display writes for an expression on which it does not abort
RECURSIVE fmt(_)
fmt(self) ==
    LET op == self.op
        a == fmt(self.args[1])
        b == fmt(self.args[2])
        c == fmt(self.args[3])
        call1(f) == f \o "(" \o a \o ")"
        call2(f) == f \o "(" \o a \o ", " \o b \o ")"
        call3(f) == f \o "(" \o a \o ", " \o b \o ", " \o c \o ")"
        infix(o) == "(" \o a \o o \o b \o ")"
    IN  CASE op = "Input" -> SHADER_INPUT_PREFIX \o self.name
          [] op = "Uniform" -> SHADER_UNIFORM_PREFIX \o self.name
          [] op = "I32" -> self.val
          [] op = "F32" -> f32_display(self.val)
          [] op = "Vec2" -> call2("vec2")
          [] op = "Append" ->
                IF shader_type(self) = OkT("Vec2") THEN call2("vec2")
                ELSE IF shader_type(self) = OkT("Vec3") THEN call2("vec3")
                ELSE call2("vec4")
          [] op = "Add" -> infix(" + ")
          [] op = "Sub" -> infix(" - ")
          [] op = "Mul" -> infix(" * ")
          [] op = "Div" -> infix(" / ")
          [] op = "Pow" -> call2("pow")
          [] op = "Rem" -> call2("mod")
          [] op = "Neg" -> "(-" \o a \o ")"
          [] op = "Abs" -> call1("abs")
          [] op = "Sign" -> call1("sign")
          [] op = "Floor" -> call1("floor")
          [] op = "Ceil" -> call1("ceil")
          [] op = "Round" -> call1("round")
          [] op = "Min" -> call2("min")
          [] op = "Max" -> call2("max")
          [] op = "Clamp" -> call3("clamp")
          [] op = "Mix" -> call3("mix")
          [] op = "Dot" -> call2("dot")
          [] op = "Cross" -> call2("cross")
          [] op = "Length" -> call1("length")
          [] op = "Normalized" -> call1("normalize")
          [] op = "Sample" ->
                LET u == SHADER_UNIFORM_PREFIX \o self.args[1].name
                IN  "textureLod(" \o u \o ", "
                        \o u \o "_min.xy + (" \o u \o "_max.xy - " \o u \o "_min.xy) * "
                        \o b
                        \o ", int(" \o u \o "_min.z + (" \o u \o "_max.z - " \o u
                        \o "_min.z) * " \o c \o "))"

\* the uniforms (names after the prefix) the text of an expression refers to
RECURSIVE uniform_refs(_)
uniform_refs(self) ==
    CASE self.op = "Uniform" -> {self.name}
      [] self.op = "Sample" ->
            {self.args[1].name, self.args[1].name \o "_min", self.args[1].name \o "_max"}
                \cup uniform_refs(self.args[2]) \cup uniform_refs(self.args[3])
      [] OTHER -> UNION {uniform_refs(self.args[i]) : i \in DOMAIN self.args}

(***************************************************************************)
(* shader_parameters.rs: ShaderParameter / ShaderParameters                *)
(***************************************************************************)
ShaderParameter(name, value_type) == [name |-> name, value_type |-> value_type]

ShaderParameter_to_expression(self) == Uniform(self.name, self.value_type)

ShaderParameters_new == <<>>

\* ShaderParameters::parameter: is there a parameter of that name / the first one
has_parameter(self, name) == \E i \in DOMAIN self : self[i].name = name
parameter(self, name) ==
    self[CHOOSE i \in DOMAIN self :
            /\ self[i].name = name
            /\ \A j \in DOMAIN self : self[j].name = name => i <= j]

Mismatch(name, existing, requested) ==
    [msg |-> "Parameter was previously requested with another type",
     side |-> name, op |-> existing \o "/" \o requested]

\* mutant of get: a parameter is pushed without looking for the name
get_always_push(self, name, value_type) ==
    [kind |-> "ok", err |-> NoError,
     self |-> Append(self, ShaderParameter(name, value_type)),
     node |-> ShaderParameter_to_expression(ShaderParameter(name, value_type))]

\* mutant of get: an existing parameter is returned whatever type is requested
get_unchecked(self, name, value_type) ==
    IF has_parameter(self, name)
    THEN [kind |-> "ok", err |-> NoError, self |-> self,
          node |-> ShaderParameter_to_expression(parameter(self, name))]
    ELSE LET pushed == Append(self, ShaderParameter(name, value_type))
         IN  [kind |-> "ok", err |-> NoError, self |-> pushed,
              node |-> ShaderParameter_to_expression(parameter(pushed, name))]

\* ShaderParameters::get::<T>(name), value_type the type of T: the expression
\* returned (or the panic) and the registry after the call
get(self, name, value_type) ==
    IF has_parameter(self, name)
    THEN IF parameter(self, name).value_type # value_type
         THEN [kind |-> "panic",
               err |-> Mismatch(name, parameter(self, name).value_type, value_type),
               self |-> self, node |-> NoExpr]
         ELSE [kind |-> "ok", err |-> NoError, self |-> self,
               node |-> ShaderParameter_to_expression(parameter(self, name))]
    ELSE LET pushed == Append(self, ShaderParameter(name, value_type))
         IN  [kind |-> "ok", err |-> NoError, self |-> pushed,
              node |-> ShaderParameter_to_expression(parameter(pushed, name))]

\* mutant of ShaderParameters_append: every parameter of other is pushed
RECURSIVE ShaderParameters_append_all(_, _)
ShaderParameters_append_all(self, other) ==
    IF other = <<>>
    THEN [ok |-> TRUE, err |-> NoError, self |-> self]
    ELSE ShaderParameters_append_all(Append(self, Head(other)), Tail(other))

\* ShaderParameters::append(&mut self, other): Result<()> and the receiver after
\* the call; the loop returns at the first collision, keeping what it pushed
RECURSIVE ShaderParameters_append(_, _)
ShaderParameters_append(self, other) ==
    IF other = <<>>
    THEN [ok |-> TRUE, err |-> NoError, self |-> self]
    ELSE LET p == Head(other)
         IN  IF has_parameter(self, p.name)
             THEN IF parameter(self, p.name).value_type # p.value_type
                  THEN [ok |-> FALSE,
                        err |-> Mismatch(p.name, parameter(self, p.name).value_type,
                                         p.value_type),
                        self |-> self]
                  ELSE ShaderParameters_append(self, Tail(other))
             ELSE ShaderParameters_append(Append(self, p), Tail(other))

(***************************************************************************)
(* vertex_layout.rs: VertexInput                                           *)
(***************************************************************************)
VertexInput == {"position", "normal", "color", "tex_coord"}

VertexInput_shader_type(self) ==
    CASE self = "position" -> "Vec3"
      [] self = "normal" -> "Vec3"
      [] self = "color" -> "Vec4"
      [] self = "tex_coord" -> "Vec2"

(***************************************************************************)
(* shader_inputs.rs: ShaderInput / ShaderInputs                            *)
(***************************************************************************)
ShaderInput(name, value_type, location) ==
    [name |-> name, value_type |-> value_type, location |-> location]

to_expression(self) == Input(self.name, self.value_type)

\* mutant of with_inputs: an empty list of inputs is accepted
with_inputs_allow_empty(list) ==
    IF \E i, j \in DOMAIN list : i < j /\ list[i].name = list[j].name
    THEN [ok |-> FALSE, val |-> <<>>, err |-> Error("Duplicate input", NoOrigin)]
    ELSE [ok |-> TRUE, val |-> list, err |-> NoError]

\* mutant of with_inputs: duplicate names are not looked for
with_inputs_no_duplicate_check(list) ==
    IF list = <<>>
    THEN [ok |-> FALSE, val |-> <<>>, err |-> Error("No inputs provided", NoOrigin)]
    ELSE [ok |-> TRUE, val |-> list, err |-> NoError]

\* Result<ShaderInputs>
with_inputs(list) ==
    IF \E i, j \in DOMAIN list : i < j /\ list[i].name = list[j].name
    THEN [ok |-> FALSE, val |-> <<>>, err |-> Error("Duplicate input", NoOrigin)]
    ELSE IF list = <<>>
    THEN [ok |-> FALSE, val |-> <<>>, err |-> Error("No inputs provided", NoOrigin)]
    ELSE [ok |-> TRUE, val |-> list, err |-> NoError]

(***************************************************************************)
(* shader_outputs.rs: ShaderOutput / ShaderOutputs                         *)
(***************************************************************************)
\* Option<ShaderExpression>: NoExpr is None
ShaderOutput(name, value_type, location) ==
    [name |-> name, value_type |-> value_type, location |-> location, expression |-> NoExpr]

ShaderOutputs_new(stage) ==
    [outputs |-> <<>>, stage |-> stage, vertex_position |-> NoExpr, fragment_color |-> NoExpr]

\* ShaderOutputs::output: is there an output of that name
has_output(self, name) == \E i \in DOMAIN self.outputs : self.outputs[i].name = name

\* ShaderOutputs::output_mut: the first output of that name
output_mut(self, name) ==
    CHOOSE i \in DOMAIN self.outputs :
        /\ self.outputs[i].name = name
        /\ \A j \in DOMAIN self.outputs : self.outputs[j].name = name => i <= j

\* mutant of set: an output is pushed even when the name exists
set_always_push(self, name, expression) ==
    LET location == Len(self.outputs) + (IF self.stage = "Fragment" THEN 1 ELSE 0)
        value_type == shader_type(expression)
    IN  IF ~value_type.ok
        THEN [ok |-> FALSE, err |-> value_type.err, self |-> self]
        ELSE [ok |-> TRUE, err |-> NoError,
              self |-> [self EXCEPT !.outputs = Append(@,
                  [ShaderOutput(name, value_type.ty, location)
                      EXCEPT !.expression = expression])]]

\* mutant of set: a new output is offset by one in either stage
set_offset_always(self, name, expression) ==
    IF has_output(self, name)
    THEN [ok |-> TRUE, err |-> NoError,
          self |-> [self EXCEPT !.outputs[output_mut(self, name)].expression = expression]]
    ELSE LET location == Len(self.outputs) + 1
             value_type == shader_type(expression)
         IN  IF ~value_type.ok
             THEN [ok |-> FALSE, err |-> value_type.err, self |-> self]
             ELSE [ok |-> TRUE, err |-> NoError,
                   self |-> [self EXCEPT !.outputs = Append(@,
                       [ShaderOutput(name, value_type.ty, location)
                           EXCEPT !.expression = expression])]]

\* mutant of set: a new output is pushed but the expression is not bound to it
set_without_binding(self, name, expression) ==
    IF has_output(self, name)
    THEN [ok |-> TRUE, err |-> NoError,
          self |-> [self EXCEPT !.outputs[output_mut(self, name)].expression = expression]]
    ELSE LET location == Len(self.outputs) + (IF self.stage = "Fragment" THEN 1 ELSE 0)
             value_type == shader_type(expression)
         IN  IF ~value_type.ok
             THEN [ok |-> FALSE, err |-> value_type.err, self |-> self]
             ELSE [ok |-> TRUE, err |-> NoError,
                   self |-> [self EXCEPT !.outputs = Append(@,
                       ShaderOutput(name, value_type.ty, location))]]

\* ShaderOutputs::set: Result<()> and the registry after the call
set(self, name, expression) ==
    IF has_output(self, name)
    THEN [ok |-> TRUE, err |-> NoError,
          self |-> [self EXCEPT !.outputs[output_mut(self, name)].expression = expression]]
    ELSE LET location == Len(self.outputs) + (IF self.stage = "Fragment" THEN 1 ELSE 0)
             value_type == shader_type(expression)
         IN  IF ~value_type.ok
             THEN [ok |-> FALSE, err |-> value_type.err, self |-> self]
             ELSE [ok |-> TRUE, err |-> NoError,
                   self |-> [self EXCEPT !.outputs = Append(@,
                       [ShaderOutput(name, value_type.ty, location)
                           EXCEPT !.expression = expression])]]

\* mutant of set_vertex_position: the type of the expression is not checked
set_vertex_position_untyped(self, expression) ==
    IF self.stage # "Vertex"
    THEN [kind |-> "panic", self |-> self]
    ELSE [kind |-> "ok", self |-> [self EXCEPT !.vertex_position = expression]]

\* set_vertex_position / set_fragment_color return nothing: they panic or store
set_vertex_position(self, expression) ==
    IF self.stage # "Vertex"
    THEN [kind |-> "panic", self |-> self]
    ELSE IF ~shader_type(expression).ok
    THEN [kind |-> "panic", self |-> self]
    ELSE IF shader_type(expression).ty # "Vec4"
    THEN [kind |-> "panic", self |-> self]
    ELSE [kind |-> "ok", self |-> [self EXCEPT !.vertex_position = expression]]

set_fragment_color(self, expression) ==
    IF self.stage # "Fragment"
    THEN [kind |-> "panic", self |-> self]
    ELSE IF ~shader_type(expression).ok
    THEN [kind |-> "panic", self |-> self]
    ELSE IF shader_type(expression).ty # "Vec4"
    THEN [kind |-> "panic", self |-> self]
    ELSE [kind |-> "ok", self |-> [self EXCEPT !.fragment_color = expression]]

\* Option<&ShaderExpression>
vertex_position(self) == self.vertex_position
fragment_color(self) == self.fragment_color

(***************************************************************************)
(* input_layout.rs: InputLayout::generate_vertex_fragment_shaders          *)
(***************************************************************************)
\* The layouts an InputLayout is created from.  VertexLayout::from_inputs does
\* not validate, so the empty layout and a repeated attribute are possible.
Layouts ==
    { <<>>, <<"position">>, <<"position", "color">>, <<"position", "position">> }

\* Names the callbacks give to their outputs
OutputNames == {"color", "normal"}

NoResult == [kind |-> "none", stage |-> "", err |-> NoError]
NoProgram == [kind |-> "none", parameters |-> <<>>]
\* the parameters a callback requests: get::<TextureView> and get::<Vector4<f32>>
CallbackParams == { <<"font_texture", "Sampler2D">>, <<"font_texture", "Vec4">> }
\* map_err: "Failed to generate <stage> shader: {e}"
Failed(stage, e) == [kind |-> "err", stage |-> stage, err |-> e]
Aborted == [kind |-> "panic", stage |-> "", err |-> NoError]
Generated == [kind |-> "ok", stage |-> "", err |-> NoError]

NoSource == [inputs |-> <<>>, uniforms |-> <<>>, outputs |-> <<>>,
             builtin |-> NoExpr, body |-> <<>>]
NoVertex == [code |-> NoSource, fragment_inputs |-> <<>>, parameters |-> <<>>]
NoFragment == [code |-> NoSource, parameters |-> <<>>]

\* "layout(location = N) in|out <type> <prefix><name>;" and "uniform <type> <prefix><name>;"
Decl(location, value_type, name) ==
    [location |-> location, type |-> glsl_name(value_type), name |-> name]
UniformDecl(value_type, name) == [type |-> glsl_name(value_type), name |-> name]
\* "<prefix><name> = <expression>;"
Assign(name, expression) == [name |-> name, expression |-> expression]

\* mutant of layout_location: the counter is never incremented
layout_location_stuck(attrs, i) == 0

RECURSIVE layout_location(_, _)
\* the running `location` counter when the i-th attribute is reached
layout_location(attrs, i) ==
    IF i = 1 THEN 0
    ELSE layout_location(attrs, i - 1)
             + location_count(VertexInput_shader_type(attrs[i - 1]))

\* the inputs __generate_vertex_shader builds from the layout
vertex_inputs(attrs) ==
    with_inputs([i \in DOMAIN attrs |->
        ShaderInput(attrs[i], VertexInput_shader_type(attrs[i]), layout_location(attrs, i))])

input_decls(ins) ==
    [i \in DOMAIN ins |-> Decl(ins[i].location, ins[i].value_type, ins[i].name)]
output_decls(outs) ==
    [i \in DOMAIN outs.outputs |->
        Decl(outs.outputs[i].location, outs.outputs[i].value_type, outs.outputs[i].name)]
uniform_decls(params) ==
    [i \in DOMAIN params |-> UniformDecl(params[i].value_type, params[i].name)]
\* the fragment stage adds "uniform vec3 <prefix><name>_min;" and "..._max;"
\* after every sampler
RECURSIVE fragment_uniform_decls(_)
fragment_uniform_decls(params) ==
    IF params = <<>> THEN <<>>
    ELSE LET p == Head(params)
         IN  <<UniformDecl(p.value_type, p.name)>>
             \o (IF p.value_type = "Sampler2D"
                 THEN << [type |-> "vec3", name |-> p.name \o "_min"],
                         [type |-> "vec3", name |-> p.name \o "_max"] >>
                 ELSE <<>>)
             \o fragment_uniform_decls(Tail(params))
output_assigns(outs) ==
    LET set_ones == SelectSeq(outs.outputs, LAMBDA o : o.expression # NoExpr)
    IN  [i \in DOMAIN set_ones |-> Assign(set_ones[i].name, set_ones[i].expression)]

\* the fragment inputs __generate_vertex_shader derives from the vertex outputs
\* mutant of fragment_inputs: the inputs are numbered from 1
fragment_inputs_from_one(outs) ==
    with_inputs([i \in DOMAIN outs.outputs |->
        ShaderInput(outs.outputs[i].name, outs.outputs[i].value_type, i)])

fragment_inputs(outs) ==
    with_inputs([i \in DOMAIN outs.outputs |->
        ShaderInput(outs.outputs[i].name, outs.outputs[i].value_type,
                    outs.outputs[i].location)])

\* does writing the statements of main() abort
body_panics(builtin, outs) ==
    \/ fmt_panics(builtin)
    \/ \E i \in DOMAIN outs.outputs :
          /\ outs.outputs[i].expression # NoExpr
          /\ fmt_panics(outs.outputs[i].expression)

\* mutant of generate_vertex_shader: the fragment inputs are linked before the
\* vertex position is looked at
generate_vertex_shader_link_first(ins, params, outs) ==
    LET code == [inputs |-> input_decls(ins),
                 uniforms |-> uniform_decls(params),
                 outputs |-> output_decls(outs),
                 builtin |-> vertex_position(outs),
                 body |-> output_assigns(outs)]
        linked == fragment_inputs(outs)
    IN  IF ~linked.ok
        THEN [kind |-> "err",
              err |-> Error("Failed to link fragment inputs to vertex outputs", NoOrigin),
              val |-> NoVertex]
        ELSE IF vertex_position(outs) = NoExpr
        THEN [kind |-> "err", err |-> Error("Vertex position not set.", NoOrigin),
              val |-> NoVertex]
        ELSE IF body_panics(vertex_position(outs), outs)
        THEN [kind |-> "panic", err |-> NoError, val |-> NoVertex]
        ELSE [kind |-> "ok", err |-> NoError,
              val |-> [code |-> code, fragment_inputs |-> linked.val,
                       parameters |-> params]]

\* __generate_vertex_shader from the return of the callback on:
\* the source, the position check, the link of the fragment inputs.
generate_vertex_shader(ins, params, outs) ==
    LET code == [inputs |-> input_decls(ins),
                 uniforms |-> uniform_decls(params),
                 outputs |-> output_decls(outs),
                 builtin |-> vertex_position(outs),
                 body |-> output_assigns(outs)]
        linked == fragment_inputs(outs)
    IN  IF vertex_position(outs) = NoExpr
        THEN [kind |-> "err", err |-> Error("Vertex position not set.", NoOrigin),
              val |-> NoVertex]
        ELSE IF body_panics(vertex_position(outs), outs)
        THEN [kind |-> "panic", err |-> NoError, val |-> NoVertex]
        ELSE IF ~linked.ok
        THEN [kind |-> "err",
              err |-> Error("Failed to link fragment inputs to vertex outputs", NoOrigin),
              val |-> NoVertex]
        ELSE [kind |-> "ok", err |-> NoError,
              val |-> [code |-> code, fragment_inputs |-> linked.val,
                       parameters |-> params]]

\* __generate_fragment_shader from the return of the callback on
generate_fragment_shader(ins, params, outs) ==
    LET code == [inputs |-> input_decls(ins),
                 uniforms |-> fragment_uniform_decls(params),
                 outputs |-> output_decls(outs),
                 builtin |-> fragment_color(outs),
                 body |-> output_assigns(outs)]
    IN  IF fragment_color(outs) = NoExpr
        THEN [kind |-> "err", err |-> Error("Fragment color not set.", NoOrigin),
              val |-> NoFragment]
        ELSE IF body_panics(fragment_color(outs), outs)
        THEN [kind |-> "panic", err |-> NoError, val |-> NoFragment]
        ELSE [kind |-> "ok", err |-> NoError,
              val |-> [code |-> code, parameters |-> params]]

(***************************************************************************)
(* Spec: one generate call.  A callback is user code acting on the         *)
(* registries it was handed; each of its calls is one step.                *)
(***************************************************************************)
InCallback == pc \in {"vertex_cb", "fragment_cb"}

\* What the running callback builds, as the shaders of the application do:
\* inputs.get(name), forwarded as named outputs, and input.append(1.0) for the
\* built-in outputs
InputExprs == {to_expression(inputs[i]) : i \in DOMAIN inputs}
Built == {append(e, LitF32("1.0")) : e \in InputExprs}
\* texture.sample(uv, level) on the samplers the callback got from parameters.get
Sampled ==
    {sample(ShaderParameter_to_expression(parameters[i]), LitVec2("0.5", "0.5"),
            LitF32("0.0")).node :
        i \in {j \in DOMAIN parameters : parameters[j].value_type = "Sampler2D"}}
CallbackExprs == InputExprs \cup {b.node : b \in {x \in Built : x.kind = "ok"}} \cup Sampled

\* generate returns (or unwinds): the registries of the running stage are dropped
Finish(res) ==
    /\ pc' = "done"
    /\ result' = res
    /\ inputs' = <<>>
    /\ parameters' = <<>>
    /\ outputs' = ShaderOutputs_new("Vertex")
    /\ UNCHANGED <<layout, calls>>

\* generate_vertex_fragment_shaders up to the invocation of the vertex callback
BeginVertex ==
    /\ pc = "start"
    /\ LET ins == vertex_inputs(layout)
       IN  IF ~ins.ok
           THEN Finish(Failed("vertex", ins.err)) /\ UNCHANGED <<vertex, fragment>>
           ELSE /\ inputs' = ins.val
                /\ parameters' = <<>>
                /\ outputs' = ShaderOutputs_new("Vertex")
                /\ calls' = [calls EXCEPT !.vertex = @ + 1]
                /\ pc' = "vertex_cb"
                /\ UNCHANGED <<layout, vertex, fragment, result>>
    /\ UNCHANGED <<buildVars, program>>

\* outputs.set(name, expression)?
CallbackSet ==
    /\ InCallback
    /\ \E name \in OutputNames, e \in InputExprs :
          LET r == set(outputs, name, e)
          IN  IF r.ok
              THEN /\ outputs' = r.self
                   /\ UNCHANGED <<pc, layout, inputs, parameters, vertex, fragment,
                                  result, calls>>
              ELSE /\ Finish(Failed(IF pc = "vertex_cb" THEN "vertex" ELSE "fragment",
                                     r.err))
                   /\ UNCHANGED <<vertex, fragment>>
    /\ UNCHANGED <<buildVars, program>>

\* parameters.get::<T>(name)
CallbackGet ==
    /\ InCallback
    /\ \E p \in CallbackParams :
          LET r == get(parameters, p[1], p[2])
          IN  IF r.kind = "ok"
              THEN /\ parameters' = r.self
                   /\ UNCHANGED <<pc, layout, inputs, outputs, vertex, fragment,
                                  result, calls>>
              ELSE Finish(Aborted) /\ UNCHANGED <<vertex, fragment>>
    /\ UNCHANGED <<buildVars, program>>

\* outputs.set_vertex_position(expression)
CallbackSetVertexPosition ==
    /\ InCallback
    /\ \E e \in CallbackExprs :
          LET r == set_vertex_position(outputs, e)
          IN  IF r.kind = "ok"
              THEN /\ outputs' = r.self
                   /\ UNCHANGED <<pc, layout, inputs, parameters, vertex, fragment,
                                  result, calls>>
              ELSE Finish(Aborted) /\ UNCHANGED <<vertex, fragment>>
    /\ UNCHANGED <<buildVars, program>>

\* outputs.set_fragment_color(expression)
CallbackSetFragmentColor ==
    /\ InCallback
    /\ \E e \in CallbackExprs :
          LET r == set_fragment_color(outputs, e)
          IN  IF r.kind = "ok"
              THEN /\ outputs' = r.self
                   /\ UNCHANGED <<pc, layout, inputs, parameters, vertex, fragment,
                                  result, calls>>
              ELSE Finish(Aborted) /\ UNCHANGED <<vertex, fragment>>
    /\ UNCHANGED <<buildVars, program>>

\* a builder call of the callback is rejected
CallbackBuilderPanic ==
    /\ InCallback
    /\ \E b \in Built : b.kind = "panic"
    /\ Finish(Aborted)
    /\ UNCHANGED <<vertex, fragment>>
    /\ UNCHANGED <<buildVars, program>>

\* the callback returns Err(..)
CallbackErr ==
    /\ InCallback
    /\ Finish(Failed(IF pc = "vertex_cb" THEN "vertex" ELSE "fragment",
                     Error("callback error", NoOrigin)))
    /\ UNCHANGED <<vertex, fragment>>
    /\ UNCHANGED <<buildVars, program>>

\* mutant of VertexReturnOk: a failure of the vertex phase does not stop generate
VertexReturnOk_continue ==
    /\ pc = "vertex_cb"
    /\ LET r == generate_vertex_shader(inputs, parameters, outputs)
       IN  CASE r.kind = "panic" -> Finish(Aborted) /\ UNCHANGED <<vertex, fragment>>
             [] OTHER ->
                  /\ vertex' = r.val
                  /\ inputs' = r.val.fragment_inputs
                  /\ parameters' = <<>>
                  /\ outputs' = ShaderOutputs_new("Fragment")
                  /\ calls' = [calls EXCEPT !.fragment = @ + 1]
                  /\ pc' = "fragment_cb"
                  /\ UNCHANGED <<layout, fragment, result>>
    /\ UNCHANGED <<buildVars, program>>

\* the vertex callback returns Ok(()): the rest of __generate_vertex_shader, and
\* __generate_fragment_shader up to the invocation of the fragment callback
VertexReturnOk ==
    /\ pc = "vertex_cb"
    /\ LET r == generate_vertex_shader(inputs, parameters, outputs)
       IN  CASE r.kind = "err" ->
                  Finish(Failed("vertex", r.err)) /\ UNCHANGED <<vertex, fragment>>
             [] r.kind = "panic" -> Finish(Aborted) /\ UNCHANGED <<vertex, fragment>>
             [] r.kind = "ok" ->
                  /\ vertex' = r.val
                  /\ inputs' = r.val.fragment_inputs
                  /\ parameters' = <<>>
                  /\ outputs' = ShaderOutputs_new("Fragment")
                  /\ calls' = [calls EXCEPT !.fragment = @ + 1]
                  /\ pc' = "fragment_cb"
                  /\ UNCHANGED <<layout, fragment, result>>
    /\ UNCHANGED <<buildVars, program>>

\* the fragment callback returns Ok(()): the rest of __generate_fragment_shader
\* and the return of generate_vertex_fragment_shaders
FragmentReturnOk ==
    /\ pc = "fragment_cb"
    /\ LET r == generate_fragment_shader(inputs, parameters, outputs)
       IN  CASE r.kind = "err" ->
                  Finish(Failed("fragment", r.err)) /\ UNCHANGED <<vertex, fragment>>
             [] r.kind = "panic" -> Finish(Aborted) /\ UNCHANGED <<vertex, fragment>>
             [] r.kind = "ok" ->
                  /\ fragment' = r.val
                  /\ Finish(Generated)
                  /\ UNCHANGED vertex
    /\ UNCHANGED <<buildVars, program>>

BuildIdle ==
    /\ cur = NoExpr
    /\ last = [op |-> "none", types |-> <<>>, out |-> Accept(NoExpr)]

Init ==
    /\ pc = "start"
    /\ layout \in Layouts
    /\ inputs = <<>>
    /\ parameters = <<>>
    /\ outputs = ShaderOutputs_new("Vertex")
    /\ vertex = NoVertex
    /\ fragment = NoFragment
    /\ result = NoResult
    /\ calls = [vertex |-> 0, fragment |-> 0]
    /\ program = NoProgram
    /\ BuildIdle

Next ==
    \/ BeginVertex
    \/ CallbackGet
    \/ CallbackSet
    \/ CallbackSetVertexPosition
    \/ CallbackSetFragmentColor
    \/ CallbackBuilderPanic
    \/ CallbackErr
    \/ VertexReturnOk
    \/ FragmentReturnOk

Spec == Init /\ [][Next]_vars

(***************************************************************************)
(* SpecProgram: GfxCache::create_program_vertex_fragment, which calls      *)
(* generate and creates the program from the two shaders.  Compiling and   *)
(* linking are done by the GL driver: either outcome is possible.          *)
(***************************************************************************)
\* Program::__new, "Combine parameters": the fold over the shaders' parameters
\* with acc.append(parameters).unwrap()
RECURSIVE combine_parameters(_, _)
combine_parameters(acc, shaders) ==
    IF shaders = <<>>
    THEN [kind |-> "ok", parameters |-> acc]
    ELSE LET r == ShaderParameters_append(acc, Head(shaders))
         IN  IF ~r.ok
             THEN [kind |-> "panic", parameters |-> <<>>]
             ELSE combine_parameters(r.self, Tail(shaders))

\* Shader::__new twice and Program::__new, after generate returned Ok
CreateProgram ==
    /\ pc = "done"
    /\ result = Generated
    /\ program = NoProgram
    /\ \E gl \in {"failed", "linked"} :
          program' = IF gl = "failed"
                     THEN [kind |-> "err", parameters |-> <<>>]
                     ELSE combine_parameters(ShaderParameters_new,
                                             <<vertex.parameters, fragment.parameters>>)
    /\ UNCHANGED <<pc, layout, inputs, parameters, outputs, vertex, fragment, result, calls>>
    /\ UNCHANGED buildVars

NextProgram == Next \/ CreateProgram

SpecProgram == Init /\ [][NextProgram]_vars

(***************************************************************************)
(* SpecBuild: a caller building one expression bottom-up.  The operands of *)
(* a call are the leaves a callback can obtain (literals, inputs.get,      *)
(* parameters.get) and the expression built so far, which every call after *)
(* the first takes as an operand.  A panic ends the run; operands are      *)
(* moved into the builder, so a rejected call leaves no expression behind. *)
(***************************************************************************)
Leaves ==
    { LitI32("1"), LitF32("1.0"),
      Input("tex_coord", "Vec2"), Input("position", "Vec3"), Input("color", "Vec4"),
      Uniform("builtin_model_matrix", "Mat4"), Uniform("font_texture", "Sampler2D") }

Operands ==
    Leaves \cup (IF cur # NoExpr THEN {cur} ELSE {})

\* The caller is still running and may build on what it holds
CanCall ==
    /\ last.out.kind # "panic"
    /\ Depth(cur) < MaxDepth

\* `last` keeps the operation, the derived type of each operand and the outcome
Call(op, args, out) ==
    /\ cur = NoExpr \/ \E i \in DOMAIN args : args[i] = cur
    /\ last' = [op |-> op,
                types |-> [i \in DOMAIN args |-> shader_type(args[i])],
                out |-> out]
    /\ cur' = out.node
    /\ UNCHANGED genVars

B_append == CanCall /\ \E a, b \in Operands : Call("append", <<a, b>>, append(a, b))
B_add == CanCall /\ \E a, b \in Operands : Call("add", <<a, b>>, add(a, b))
B_sub == CanCall /\ \E a, b \in Operands : Call("sub", <<a, b>>, sub(a, b))
B_mul == CanCall /\ \E a, b \in Operands : Call("mul", <<a, b>>, mul(a, b))
B_div == CanCall /\ \E a, b \in Operands : Call("div", <<a, b>>, div(a, b))
B_pow == CanCall /\ \E a, b \in Operands : Call("pow", <<a, b>>, pow(a, b))
B_rem == CanCall /\ \E a, b \in Operands : Call("rem", <<a, b>>, rem(a, b))
B_neg == CanCall /\ \E a \in Operands : Call("neg", <<a>>, neg(a))
B_abs == CanCall /\ \E a \in Operands : Call("abs", <<a>>, abs(a))
B_sign == CanCall /\ \E a \in Operands : Call("sign", <<a>>, sign(a))
B_floor == CanCall /\ \E a \in Operands : Call("floor", <<a>>, floor(a))
B_ceil == CanCall /\ \E a \in Operands : Call("ceil", <<a>>, ceil(a))
B_round == CanCall /\ \E a \in Operands : Call("round", <<a>>, round(a))
B_min == CanCall /\ \E a, b \in Operands : Call("min", <<a, b>>, min(a, b))
B_max == CanCall /\ \E a, b \in Operands : Call("max", <<a, b>>, max(a, b))
B_clamp == CanCall /\ \E a, b, c \in Operands : Call("clamp", <<a, b, c>>, clamp(a, b, c))
B_mix == CanCall /\ \E a, b, c \in Operands : Call("mix", <<a, b, c>>, mix(a, b, c))
B_dot == CanCall /\ \E a, b \in Operands : Call("dot", <<a, b>>, dot(a, b))
B_cross == CanCall /\ \E a, b \in Operands : Call("cross", <<a, b>>, cross(a, b))
B_length == CanCall /\ \E a \in Operands : Call("length", <<a>>, length(a))
B_normalized == CanCall /\ \E a \in Operands : Call("normalized", <<a>>, normalized(a))
B_sample == CanCall /\ \E a, b, c \in Operands : Call("sample", <<a, b, c>>, sample(a, b, c))

GenIdle ==
    /\ pc = "idle"
    /\ layout = <<>>
    /\ inputs = <<>>
    /\ parameters = <<>>
    /\ outputs = ShaderOutputs_new("Vertex")
    /\ vertex = NoVertex
    /\ fragment = NoFragment
    /\ result = NoResult
    /\ calls = [vertex |-> 0, fragment |-> 0]
    /\ program = NoProgram

InitBuild ==
    /\ BuildIdle
    /\ GenIdle

NextBuild ==
    \/ B_append \/ B_add \/ B_sub \/ B_mul \/ B_div \/ B_pow \/ B_rem
    \/ B_neg \/ B_abs \/ B_sign \/ B_floor \/ B_ceil \/ B_round
    \/ B_min \/ B_max \/ B_clamp \/ B_mix
    \/ B_dot \/ B_cross \/ B_length \/ B_normalized
    \/ B_sample

SpecBuild == InitBuild /\ [][NextBuild]_vars

(***************************************************************************)
(* SpecParams: a caller working on one parameter registry that starts      *)
(* empty, with get::<T>(name) and append(&other).  `cur` is the expression *)
(* the last get returned, `last` the last call and its outcome.  A panic   *)
(* ends the run; an Err of append is returned to the caller, who goes on.  *)
(***************************************************************************)
ParamNames == {"tint", "font_texture", "font_texture_min"}
\* the types of T in get::<T>: UniformValue::value_type
ParamTypes == {"Vec4", "Sampler2D"}
ParamSet == {ShaderParameter(n, t) : n \in ParamNames, t \in ParamTypes}

\* the registries another shader stage can hand to append
Registries ==
    { r \in UNION {[1..k -> ParamSet] : k \in 0..Cardinality(ParamNames)} :
        \A i, j \in DOMAIN r : r[i].name = r[j].name => i = j }

ParamsIdle ==
    /\ pc = "idle"
    /\ layout = <<>>
    /\ inputs = <<>>
    /\ outputs = ShaderOutputs_new("Vertex")
    /\ vertex = NoVertex
    /\ fragment = NoFragment
    /\ result = NoResult
    /\ calls = [vertex |-> 0, fragment |-> 0]
    /\ program = NoProgram

paramsIdleVars ==
    <<pc, layout, inputs, outputs, vertex, fragment, result, calls, program>>

P_get ==
    /\ last.out.kind # "panic"
    /\ \E name \in ParamNames, value_type \in ParamTypes :
          LET r == get(parameters, name, value_type)
          IN  /\ parameters' = r.self
              /\ cur' = r.node
              /\ last' = [op |-> "get", name |-> name, value_type |-> value_type,
                          other |-> <<>>,
                          out |-> [kind |-> r.kind, node |-> r.node, err |-> r.err]]
    /\ UNCHANGED paramsIdleVars

P_append ==
    /\ last.out.kind # "panic"
    /\ \E other \in Registries :
          LET r == ShaderParameters_append(parameters, other)
          IN  /\ parameters' = r.self
              /\ cur' = NoExpr
              /\ last' = [op |-> "append", name |-> "", value_type |-> "",
                          other |-> other,
                          out |-> [kind |-> IF r.ok THEN "ok" ELSE "err",
                                   node |-> NoExpr, err |-> r.err]]
    /\ UNCHANGED paramsIdleVars

InitParams ==
    /\ BuildIdle
    /\ parameters = ShaderParameters_new
    /\ ParamsIdle

NextParams == P_get \/ P_append

SpecParams == InitParams /\ [][NextParams]_vars

(***************************************************************************)
(* SpecOutputs: one ShaderOutputs registry of either stage under set,      *)
(* set_vertex_position and set_fragment_color                              *)
(***************************************************************************)
\* the expressions a callback hands to the registry: stage inputs, a matrix
\* uniform, a sampler uniform, and the node mul() returns for a matrix and a
\* scalar
OutputExprs ==
    { Input("position", "Vec3"), Input("color", "Vec4"),
      Uniform("builtin_model_matrix", "Mat4"), Uniform("font_texture", "Sampler2D"),
      mul(Uniform("builtin_model_matrix", "Mat4"), LitF32("1.0")).node }

OutputsIdle ==
    /\ pc = "idle"
    /\ layout = <<>>
    /\ inputs = <<>>
    /\ parameters = <<>>
    /\ vertex = NoVertex
    /\ fragment = NoFragment
    /\ result = NoResult
    /\ calls = [vertex |-> 0, fragment |-> 0]
    /\ program = NoProgram

outputsIdleVars == <<pc, layout, inputs, parameters, vertex, fragment, result, calls, program>>

O_set ==
    /\ last.out.kind # "panic"
    /\ \E name \in OutputNames, e \in OutputExprs :
          LET r == set(outputs, name, e)
          IN  /\ outputs' = r.self
              /\ cur' = e
              /\ last' = [op |-> "set", name |-> name,
                          out |-> [kind |-> IF r.ok THEN "ok" ELSE "err",
                                   node |-> e, err |-> r.err]]
    /\ UNCHANGED outputsIdleVars

O_set_vertex_position ==
    /\ last.out.kind # "panic"
    /\ \E e \in OutputExprs :
          LET r == set_vertex_position(outputs, e)
          IN  /\ outputs' = r.self
              /\ cur' = e
              /\ last' = [op |-> "set_vertex_position", name |-> "",
                          out |-> [kind |-> r.kind, node |-> e, err |-> NoError]]
    /\ UNCHANGED outputsIdleVars

O_set_fragment_color ==
    /\ last.out.kind # "panic"
    /\ \E e \in OutputExprs :
          LET r == set_fragment_color(outputs, e)
          IN  /\ outputs' = r.self
              /\ cur' = e
              /\ last' = [op |-> "set_fragment_color", name |-> "",
                          out |-> [kind |-> r.kind, node |-> e, err |-> NoError]]
    /\ UNCHANGED outputsIdleVars

InitOutputs ==
    /\ BuildIdle
    /\ outputs \in {ShaderOutputs_new("Vertex"), ShaderOutputs_new("Fragment")}
    /\ OutputsIdle

NextOutputs == O_set \/ O_set_vertex_position \/ O_set_fragment_color

SpecOutputs == InitOutputs /\ [][NextOutputs]_vars

\* Types of the operands of the last call (every operand of an accepted call has one)
Accepted == last.out.kind = "ok"
Rejected == last.out.kind # "ok"


(***************************************************************************)
(* Properties of the builders (SpecBuild)                                  *)
(***************************************************************************)
Called(op) == last.op = op
\* every operand of the last call has a derived type
Typed == \A i \in DOMAIN last.types : last.types[i].ok
Ty(i) == last.types[i].ty
Count(i) == component_count(Ty(i))
Kind(i) == component_type(Ty(i))
IsVector(t) == t \in {"Vec2", "Vec3", "Vec4"}
IsScalarOrVector(t) == t \in {"I32", "F32", "Vec2", "Vec3", "Vec4"}

\* the message of a rejected call names the operation and an offending side
NamesOperation == last.out.err.op = last.op /\ last.out.err.side # ""

C2_AddAcceptance ==
    Called("add") /\ Typed =>
        /\ Accepted <=>
              /\ IsScalarOrVector(Ty(1)) /\ IsScalarOrVector(Ty(2))
              /\ Kind(1) = Kind(2)
              /\ Count(1) = Count(2) \/ Count(1).v = 1 \/ Count(2).v = 1
        /\ Rejected => last.out.err.op = "add"

\* C3 (as claimed): for operand types with a component count, a.append(b)
\* succeeds iff components(a) + components(b) <= 4, the derived type then has
\* that many components, and mixing I32 with float operands does not reject.
C3_AppendIffSumAtMost4 ==
    Called("append") /\ Typed /\ Count(1).some /\ Count(2).some =>
        /\ Accepted <=> Count(1).v + Count(2).v <= 4
        /\ Accepted =>
              /\ shader_type(cur).ok
              /\ component_count(shader_type(cur).ty) = SomeN(Count(1).v + Count(2).v)

\* C3 (amended): for operand types with a component count, a.append(b) succeeds
\* iff a and b have the same underlying scalar kind and components(a) +
\* components(b) <= 4 (an I32 operand appended to a float operand is rejected),
\* and on success the derived type has components(a) + components(b) components.
C3_AppendSameKindAndSum ==
    Called("append") /\ Typed /\ Count(1).some /\ Count(2).some =>
        /\ Accepted <=> Kind(1) = Kind(2) /\ Count(1).v + Count(2).v <= 4
        /\ Accepted =>
              /\ shader_type(cur).ok
              /\ component_count(shader_type(cur).ty) = SomeN(Count(1).v + Count(2).v)

\* C3 witness: Vec2.append(Vec2) was accepted and is a Vec4
C3_Witness ==
    /\ Called("append") /\ Accepted
    /\ Typed /\ Ty(1) = "Vec2" /\ Ty(2) = "Vec2"
    /\ shader_type(cur) = OkT("Vec4")

\* C4 (as claimed): mul with a Mat4 operand is accepted in exactly two cases,
\* mul(Mat4, Vec4) of type Vec4 and mul(Mat4, Mat4) of type Mat4; it is rejected
\* when Mat4 is the right operand of a non-matrix, and when the left operand is
\* Mat4 and the right one neither Vec4 nor Mat4.
C4_MatrixMul ==
    Called("mul") /\ Typed /\ (Ty(1) = "Mat4" \/ Ty(2) = "Mat4") =>
        /\ Accepted <=> Ty(1) = "Mat4" /\ Ty(2) \in {"Vec4", "Mat4"}
        /\ Accepted => shader_type(cur) = OkT(Ty(2))

\* C5 (as claimed): an accepted add, sub, mul, div, min or max of one scalar and
\* one vector has the vector operand's type, whichever side the scalar is on.
C5_BroadcastType ==
    /\ last.op \in {"add", "sub", "mul", "div", "min", "max"}
    /\ Accepted
    => /\ (Count(1).v = 1 /\ IsVector(Ty(2)) => shader_type(cur) = OkT(Ty(2)))
       /\ (IsVector(Ty(1)) /\ Count(2).v = 1 => shader_type(cur) = OkT(Ty(1)))

C7_CrossOnlyVec3 ==
    Called("cross") /\ Accepted =>
        /\ Ty(1) = "Vec3" /\ Ty(2) = "Vec3"
        /\ shader_type(cur) = OkT("Vec3")

(***************************************************************************)
(* Properties of generate (Spec)                                           *)
(***************************************************************************)
PositionNotSet == Failed("vertex", Error("Vertex position not set.", NoOrigin))
ColorNotSet == Failed("fragment", Error("Fragment color not set.", NoOrigin))

\* C8: if the vertex callback returns Ok without set_vertex_position, generate
\* returns the error "Vertex position not set.", whatever named outputs exist;
\* if the fragment callback returns Ok without set_fragment_color, generate
\* returns the error "Fragment color not set.".
C8_MissingBuiltinFails ==
    [][ /\ (VertexReturnOk /\ vertex_position(outputs) = NoExpr
               => pc' = "done" /\ result' = PositionNotSet)
        /\ (FragmentReturnOk /\ fragment_color(outputs) = NoExpr
               => pc' = "done" /\ result' = ColorNotSet) ]_vars

\* C8 witness: generate failed on the unset fragment color after a vertex stage
\* that declared named outputs
C8_Witness ==
    /\ pc = "done"
    /\ result = ColorNotSet
    /\ vertex.code.outputs # <<>>

PhaseRank(p) ==
    CASE p = "start" -> 0
      [] p = "vertex_cb" -> 1
      [] p = "fragment_cb" -> 2
      [] p = "done" -> 3

\* C9: the phases of one generate call run in one fixed order without return:
\* each callback is invoked at most once, the fragment callback only after the
\* vertex callback returned Ok, the vertex position was found set and the
\* fragment inputs were derived from the vertex outputs; when a step of the
\* vertex phase fails, the fragment callback is never invoked and generate
\* returns an error.
C9_Invoked ==
    /\ calls.vertex <= 1 /\ calls.fragment <= 1
    /\ (pc = "vertex_cb" => calls.vertex = 1 /\ calls.fragment = 0)
    /\ (pc = "fragment_cb" => calls.fragment = 1 /\ inputs = vertex.fragment_inputs)
    /\ calls.fragment = 1 =>
          /\ calls.vertex = 1
          /\ vertex.code.builtin # NoExpr
          /\ vertex.fragment_inputs # <<>>
          /\ Len(vertex.fragment_inputs) = Len(vertex.code.outputs)
    /\ (result.kind = "err" /\ result.stage = "vertex" =>
           pc = "done" /\ calls.fragment = 0 /\ vertex = NoVertex)
    /\ (pc = "done" /\ calls.fragment = 0 => result.kind \in {"err", "panic"})

C9_PhaseOrder ==
    [][ /\ PhaseRank(pc') >= PhaseRank(pc)
        /\ calls'.vertex >= calls.vertex
        /\ calls'.fragment >= calls.fragment
        /\ (calls'.fragment > calls.fragment => VertexReturnOk)
        /\ (pc = "done" => UNCHANGED vars) ]_vars /\ []C9_Invoked

\* C9 witness: the fragment callback is running, after one vertex callback
C9_Witness ==
    /\ pc = "fragment_cb"
    /\ calls = [vertex |-> 1, fragment |-> 1]
    /\ vertex.code.builtin # NoExpr

\* C10: when the vertex phase succeeds, the fragment inputs are, in creation
\* order, one per named vertex output, with the same name, the same type and the
\* location at which the vertex source declares that output (0, 1, 2, ...), so
\* every fragment `in` declaration matches a vertex `out` declaration.
C10_FragmentInputsLinked ==
    /\ pc = "fragment_cb" =>
          /\ Len(inputs) = Len(vertex.code.outputs)
          /\ \A i \in DOMAIN inputs :
                /\ inputs[i].name = vertex.code.outputs[i].name
                /\ glsl_name(inputs[i].value_type) = vertex.code.outputs[i].type
                /\ inputs[i].location = vertex.code.outputs[i].location
                /\ inputs[i].location = i - 1
    /\ result = Generated => fragment.code.inputs = vertex.code.outputs

\* C10 witness: the fragment callback received two inputs of different types
C10_Witness ==
    /\ pc = "fragment_cb"
    /\ Len(inputs) = 2
    /\ inputs[1].value_type # inputs[2].value_type
    /\ inputs[2].location = 1

\* The program of the example: the layout [position: Vec3, color: Vec4]; the
\* vertex callback set the position to position.append(1.0) and forwarded the
\* color as the one named output; the fragment callback output the forwarded
\* color and nothing else.
ExampleGenerated ==
    /\ result = Generated
    /\ layout = <<"position", "color">>
    /\ vertex.code.builtin = Node("Append", <<Input("position", "Vec3"), LitF32("1.0")>>)
    /\ vertex.code.body = <<Assign("color", Input("color", "Vec4"))>>
    /\ Len(vertex.code.outputs) = 1
    /\ fragment.code.builtin = Input("color", "Vec4")
    /\ fragment.code.outputs = <<>>

ExampleVertexSource ==
    /\ vertex.code.inputs = <<Decl(0, "Vec3", "position"), Decl(1, "Vec4", "color")>>
    /\ vertex.code.outputs = <<Decl(0, "Vec4", "color")>>
    /\ vertex.code.builtin.op = "Append"
    /\ shader_type(vertex.code.builtin) = OkT("Vec4")

\* C11 (as claimed): for the example the vertex source declares `in` at
\* locations 0 and 1 and one `out` at location 0 and assigns the position a
\* 4-vector append expression; the fragment source declares a single `in` at
\* location 1 and assigns that input unchanged to the fragment color.
C11_ExampleFragmentInAtOne ==
    ExampleGenerated =>
        /\ ExampleVertexSource
        /\ Len(fragment.code.inputs) = 1
        /\ fragment.code.inputs[1].location = 1
        /\ fragment.code.builtin = Input(fragment.code.inputs[1].name, "Vec4")

\* C11 (amended): as claimed, except that the single fragment `in` is declared at
\* location 0, the location of the vertex `out` it is linked to (only the named
\* fragment outputs are offset by one).
C11_ExampleSources ==
    ExampleGenerated =>
        /\ ExampleVertexSource
        /\ fragment.code.inputs = <<Decl(0, "Vec4", "color")>>
        /\ fragment.code.builtin = Input(fragment.code.inputs[1].name, "Vec4")
        /\ fragment.code.body = <<>>

\* C11 witness: the example program was generated
C11_Witness == ExampleGenerated /\ pc = "done"

\* the named outputs of the registry, in creation order
Named == outputs.outputs
StageOffset == IF outputs.stage = "Fragment" THEN 1 ELSE 0

\* every named output sits at its creation index (plus one in a fragment registry)
\* and no name occurs twice
OutputLocations ==
    /\ \A i \in DOMAIN Named : Named[i].location = (i - 1) + StageOffset
    /\ \A i, j \in DOMAIN Named : Named[i].name = Named[j].name => i = j

\* a step inside one callback keeps every existing output's name and location;
\* it either creates one output at the end or replaces one expression
SetKeepsOutputs ==
    pc' = pc /\ outputs'.stage = outputs.stage =>
        LET after == outputs'.outputs
        IN  /\ Len(after) \in {Len(Named), Len(Named) + 1}
            /\ \A i \in DOMAIN Named :
                  /\ after[i].name = Named[i].name
                  /\ after[i].location = Named[i].location
                  /\ after[i].value_type = Named[i].value_type
            /\ Len(after) = Len(Named) =>
                  \A i, j \in DOMAIN Named :
                      /\ after[i].expression # Named[i].expression
                      /\ after[j].expression # Named[j].expression
                      => i = j
            /\ Len(after) = Len(Named) + 1 =>
                  /\ ~has_output(outputs, after[Len(after)].name)
                  /\ \A i \in DOMAIN Named : after[i] = Named[i]

\* C12: after any sequence of set calls on one registry the k-th distinct name
\* (k from 0) has location k in a vertex registry and k + 1 in a fragment
\* registry; a set on an existing name replaces only that output's expression and
\* changes neither the number of outputs nor any location.
C12_OutputLocations == []OutputLocations /\ [][SetKeepsOutputs]_vars

\* C12 witness: a fragment registry with two outputs at locations 1 and 2, the
\* first of which was set again with an expression of another type
C12_Witness ==
    /\ pc = "fragment_cb"
    /\ Len(Named) = 2
    /\ Named[1].location = 1 /\ Named[2].location = 2
    /\ shader_type(Named[1].expression) # OkT(Named[1].value_type)

\* the built-in slots hold only Vec4 expressions, each in its own stage
SlotsValid ==
    /\ vertex_position(outputs) # NoExpr =>
          outputs.stage = "Vertex" /\ shader_type(vertex_position(outputs)) = OkT("Vec4")
    /\ fragment_color(outputs) # NoExpr =>
          outputs.stage = "Fragment" /\ shader_type(fragment_color(outputs)) = OkT("Vec4")

\* a call in the wrong stage or with a non-Vec4 expression panics and hands the
\* registry back as it was; any other call stores the expression in its slot
SlotCallsChecked ==
    \A e \in CallbackExprs :
        LET v == set_vertex_position(outputs, e)
            f == set_fragment_color(outputs, e)
            vec4 == shader_type(e) = OkT("Vec4")
        IN  /\ IF outputs.stage = "Vertex" /\ vec4
               THEN v.kind = "ok" /\ v.self = [outputs EXCEPT !.vertex_position = e]
               ELSE v.kind = "panic" /\ v.self = outputs
            /\ IF outputs.stage = "Fragment" /\ vec4
               THEN f.kind = "ok" /\ f.self = [outputs EXCEPT !.fragment_color = e]
               ELSE f.kind = "panic" /\ f.self = outputs

\* a rejected call is not a recoverable error: generate does not return Err, the
\* panic unwinds out of it
SlotCallAborts ==
    /\ CallbackSetVertexPosition
           /\ (outputs.stage # "Vertex" \/ vertex_position(outputs') = vertex_position(outputs))
           /\ pc' # pc
       => result' = Aborted
    /\ CallbackSetFragmentColor
           /\ (outputs.stage # "Fragment" \/ fragment_color(outputs') = fragment_color(outputs))
           /\ pc' # pc
       => result' = Aborted

\* C13: the vertex-position slot is filled only in a Vertex registry and only
\* with a Vec4 expression, the fragment-colour slot only in a Fragment registry
\* and only with a Vec4 expression; set_vertex_position / set_fragment_color in
\* the wrong stage or with a non-Vec4 expression aborts (no recoverable error)
\* and leaves both slots and the named outputs unchanged.
C13_BuiltinSlots ==
    /\ [](InCallback => SlotsValid /\ SlotCallsChecked)
    /\ [][SlotCallAborts]_vars

\* C13 witness: a fragment callback that has set its colour and can make both
\* kinds of rejected call (wrong stage, non-Vec4 expression)
C13_Witness ==
    /\ pc = "fragment_cb"
    /\ fragment_color(outputs) # NoExpr
    /\ set_vertex_position(outputs, fragment_color(outputs)).kind = "panic"
    /\ \E e \in CallbackExprs : shader_type(e) # OkT("Vec4")

\* the vertex inputs follow the layout: the first at location 0, each next one
\* after the locations its predecessor takes
InputsFollowLayout(ins) ==
    /\ Len(ins) = Len(layout)
    /\ \A i \in DOMAIN ins :
          /\ ins[i].name = layout[i]
          /\ ins[i].value_type = VertexInput_shader_type(layout[i])
          /\ ins[i].location =
                IF i = 1 THEN 0
                ELSE ins[i - 1].location + location_count(ins[i - 1].value_type)

\* C14: the vertex inputs are built from the layout in declaration order; the
\* i-th attribute gets the sum of location_count (4 for Mat4, 1 otherwise) of the
\* attributes before it, starting at 0, and the vertex source declares each input
\* at that location.
C14_InputLocations ==
    /\ \A t \in ShaderType : location_count(t) = IF t = "Mat4" THEN 4 ELSE 1
    /\ pc = "vertex_cb" => InputsFollowLayout(inputs)
    /\ vertex # NoVertex =>
          /\ Len(vertex.code.inputs) = Len(layout)
          /\ \A i \in DOMAIN layout :
                /\ vertex.code.inputs[i].name = layout[i]
                /\ vertex.code.inputs[i].type = glsl_name(VertexInput_shader_type(layout[i]))
                /\ vertex.code.inputs[i].location =
                      IF i = 1 THEN 0
                      ELSE vertex.code.inputs[i - 1].location
                               + location_count(VertexInput_shader_type(layout[i - 1]))

\* C14 witness: a vertex source with two inputs, the second at location 1
C14_Witness ==
    /\ vertex # NoVertex
    /\ Len(vertex.code.inputs) = 2
    /\ vertex.code.inputs[2].location = 1

DistinctNames(list) == \A i, j \in DOMAIN list : list[i].name = list[j].name => i = j
LayoutRejected == layout = <<>> \/ \E i, j \in DOMAIN layout : i # j /\ layout[i] = layout[j]

\* with_inputs on the two lists generate passes to it: the inputs of the layout
\* and the inputs derived from the outputs of the running stage
WithInputsIff ==
    /\ vertex_inputs(layout).ok <=> ~LayoutRejected
    /\ LET list == [i \in DOMAIN Named |->
                       ShaderInput(Named[i].name, Named[i].value_type, Named[i].location)]
       IN  /\ with_inputs(list).ok <=> list # <<>> /\ DistinctNames(list)
           /\ with_inputs(list).ok => with_inputs(list).val = list

\* C15: with_inputs returns an error iff the list is empty or holds two inputs of
\* the same name; so generate on an empty layout or on a layout naming an
\* attribute twice returns an error without invoking the vertex callback, and
\* the inputs a callback sees are non-empty with pairwise distinct names.
C15_InputSets ==
    /\ [](/\ WithInputsIff
          /\ (InCallback => inputs # <<>> /\ DistinctNames(inputs))
          /\ (LayoutRejected /\ pc # "start" =>
                 /\ pc = "done"
                 /\ result.kind = "err"
                 /\ calls = [vertex |-> 0, fragment |-> 0])
          /\ (~LayoutRejected /\ pc # "start" => calls.vertex = 1))
    /\ [][BeginVertex =>
             IF LayoutRejected
             THEN pc' = "done" /\ result'.kind = "err" /\ calls' = calls
             ELSE pc' = "vertex_cb" /\ inputs' = vertex_inputs(layout).val]_vars

\* C15 witness: generate on a layout that names position twice has returned an
\* error and the vertex callback was not invoked
C15_Witness ==
    /\ layout = <<"position", "position">>
    /\ pc = "done"
    /\ result.kind = "err"
    /\ calls.vertex = 0

(***************************************************************************)
(* Properties of the parameter registry (SpecParams)                       *)
(***************************************************************************)
\* C16: for a name already registered with type T, get::<T>(name) leaves the
\* registry unchanged and returns a uniform reference rendering to the same text
\* as the first reference ("_uniform_" and the name); get::<U>(name) with U # T
\* aborts, returns no error value and registers nothing; for a name not yet
\* registered, get::<T>(name) appends exactly one parameter (name, T).
C16_GetByName ==
    [][last'.op = "get" =>
        LET name == last'.name
            value_type == last'.value_type
            returned == /\ last'.out.kind = "ok"
                        /\ cur' = Uniform(name, value_type)
                        /\ fmt(cur') = SHADER_UNIFORM_PREFIX \o name
        IN  IF has_parameter(parameters, name)
            THEN /\ parameters' = parameters
                 /\ IF parameter(parameters, name).value_type = value_type
                    THEN returned
                    ELSE last'.out.kind = "panic" /\ cur' = NoExpr
            ELSE /\ parameters' = Append(parameters, ShaderParameter(name, value_type))
                 /\ returned ]_vars

\* C16 witness: the first of two registered names was requested again with its
\* type
C16_Witness ==
    /\ last.op = "get" /\ last.out.kind = "ok"
    /\ Len(parameters) = 2
    /\ last.name = parameters[1].name
    /\ fmt(cur) = "_uniform_" \o parameters[1].name

\* C17: after any sequence of get and append calls on a registry that starts
\* empty, no two parameters have the same name, and the type recorded for a name
\* never changes once the name is registered.
C17_UniqueNames ==
    /\ [](\A i, j \in DOMAIN parameters :
             parameters[i].name = parameters[j].name => i = j)
    /\ [][\A i \in DOMAIN parameters :
             /\ has_parameter(parameters', parameters[i].name)
             /\ parameter(parameters', parameters[i].name).value_type
                    = parameters[i].value_type
             /\ Len(parameters') >= Len(parameters)]_vars

\* C17 witness: three names are registered and the last call was an append that
\* collided
C17_Witness ==
    /\ Len(parameters) = 3
    /\ last.op = "append"
    /\ last.out.kind = "err"

Collides(self, other) ==
    \E i \in DOMAIN self, j \in DOMAIN other :
        self[i].name = other[j].name /\ self[i].value_type # other[j].value_type

\* C18: append(other) returns an error iff some name is registered in both
\* registries with different types; on Ok the receiver holds its previous
\* parameters in their order, followed by the parameters of other whose names it
\* did not hold, in other's order; appending the same registry again changes
\* nothing.
C18_Append ==
    [][last'.op = "append" =>
        LET other == last'.other
            fresh(p) == ~has_parameter(parameters, p.name)
        IN  /\ last'.out.kind = "err" <=> Collides(parameters, other)
            /\ last'.out.kind \in {"ok", "err"}
            /\ last'.out.kind = "ok" =>
                  /\ parameters' = parameters \o SelectSeq(other, fresh)
                  /\ ShaderParameters_append(parameters', other)
                        = [ok |-> TRUE, err |-> NoError, self |-> parameters'] ]_vars

\* C18 witness: an append of two parameters succeeded on a receiver that held the
\* first of them and one that other does not hold; the second comes last
C18_Witness ==
    /\ last.op = "append" /\ last.out.kind = "ok"
    /\ Len(last.other) = 2
    /\ Len(parameters) = 3
    /\ parameters[1] = last.other[1]
    /\ ~has_parameter(last.other, parameters[2].name)
    /\ parameters[3] = last.other[2]

(***************************************************************************)
(* Properties of the created program (SpecProgram) and of the uniforms     *)
(***************************************************************************)
NamesOf(params) == {params[i].name : i \in DOMAIN params}

\* C19 (as claimed): when the two callbacks of one program request the same
\* parameter name with different types, the collision is rejected as a
\* recoverable error when the stage parameter sets are merged (no program, no
\* abort); without a collision the merged set holds every name of either stage
\* exactly once.
C19_MergeRejectsCollision ==
    program # NoProgram =>
        /\ program.kind \in {"ok", "err"}
        /\ Collides(vertex.parameters, fragment.parameters) => program.kind = "err"
        /\ program.kind = "ok" =>
              /\ NamesOf(program.parameters)
                    = NamesOf(vertex.parameters) \cup NamesOf(fragment.parameters)
              /\ \A i, j \in DOMAIN program.parameters :
                    program.parameters[i].name = program.parameters[j].name => i = j

\* the uniforms a source declares, and those its statements refer to
Declared(code) == {code.uniforms[i].name : i \in DOMAIN code.uniforms}
Referenced(code) ==
    uniform_refs(code.builtin)
        \cup UNION {uniform_refs(code.body[i].expression) : i \in DOMAIN code.body}

SamplerRegionsDeclared(stage) ==
    /\ \A i \in DOMAIN stage.parameters :
          LET p == stage.parameters[i]
          IN  /\ \E k \in DOMAIN stage.code.uniforms :
                    stage.code.uniforms[k] = UniformDecl(p.value_type, p.name)
              /\ p.value_type = "Sampler2D" =>
                    /\ \E k \in DOMAIN stage.code.uniforms :
                          stage.code.uniforms[k] = [type |-> "vec3", name |-> p.name \o "_min"]
                    /\ \E k \in DOMAIN stage.code.uniforms :
                          stage.code.uniforms[k] = [type |-> "vec3", name |-> p.name \o "_max"]
    /\ Referenced(stage.code) \subseteq Declared(stage.code)

\* C20 (as claimed): in each of the two stages the source declares, for every
\* Sampler2D parameter of that stage's registry, the vec3 uniforms <name>_min
\* and <name>_max besides the sampler itself, so every uniform a rendered sample
\* expression refers to is declared in the same source.
C20_SamplerRegionUniforms ==
    /\ vertex # NoVertex => SamplerRegionsDeclared(vertex)
    /\ fragment # NoFragment => SamplerRegionsDeclared(fragment)

(***************************************************************************)
(* Properties of the rendered text and of accepted nodes (SpecBuild)       *)
(***************************************************************************)
\* one textureLod call on the uniform u, with the texts uv and lod once each
SampleCall(u, uv, lod) ==
    "textureLod(" \o u \o ", " \o u \o "_min.xy + (" \o u \o "_max.xy - " \o u
        \o "_min.xy) * " \o uv \o ", int(" \o u \o "_min.z + (" \o u \o "_max.z - "
        \o u \o "_min.z) * " \o lod \o "))"

ColorTextureSample ==
    sample(Uniform("color_texture", "Sampler2D"), LitVec2("0.5", "0.5"), LitF32("0.0"))

\* C21: a sample expression on the uniform reference N with a Vec2 uv and an F32
\* lod has type Vec4 and renders to a single call that refers to exactly the
\* uniforms N, N_min and N_max (besides those of its operands) and embeds the
\* rendered uv and lod once each; for color_texture, (0.5, 0.5), 0.0 these are
\* color_texture, color_texture_min, color_texture_max.
C21_SampleRendering ==
    /\ Called("sample") /\ Accepted /\ cur.args[1].op = "Uniform" =>
          LET N == cur.args[1].name
          IN  /\ shader_type(cur) = OkT("Vec4")
              /\ Ty(2) = "Vec2" /\ shader_type(cur.args[2]) = OkT("Vec2")
              /\ Ty(3) = "F32" /\ shader_type(cur.args[3]) = OkT("F32")
              /\ ~fmt_panics(cur)
              /\ fmt(cur) = SampleCall("_uniform_" \o N, fmt(cur.args[2]), fmt(cur.args[3]))
              /\ uniform_refs(cur) =
                    {N, N \o "_min", N \o "_max"}
                        \cup uniform_refs(cur.args[2]) \cup uniform_refs(cur.args[3])
    /\ ColorTextureSample.kind = "ok"
    /\ uniform_refs(ColorTextureSample.node)
          = {"color_texture", "color_texture_min", "color_texture_max"}
    /\ fmt(ColorTextureSample.node)
          = SampleCall("_uniform_color_texture", "vec2(0.5, 0.5)", "0")

\* C21 witness: font_texture was sampled at the input tex_coord
C21_Witness ==
    /\ Called("sample") /\ Accepted
    /\ cur.args[1] = Uniform("font_texture", "Sampler2D")
    /\ cur.args[2] = Input("tex_coord", "Vec2")
    /\ shader_type(cur) = OkT("Vec4")

\* C22 (as claimed): every expression returned by a builder that accepted its
\* operands has a defined type: shader_type() on the returned node is Ok.
C22_AcceptedNodeTyped ==
    Accepted /\ cur # NoExpr => shader_type(cur).ok

\* the operations whose receiver passes through one of the vector checks
VectorCheckedOps ==
    {"pow", "floor", "ceil", "round", "mix", "dot", "cross", "length", "normalized"}

\* C30 (as claimed): for the type t of the receiver of a call, the four checks
\* ensure_vector_or_scalar, ensure_vector_or_scalar_f32, ensure_vector and
\* ensure_vector_f32 return an error when t is Mat4 or Sampler2D; ensure_vector
\* and ensure_vector_f32 return Ok exactly for Vec2, Vec3, Vec4;
\* ensure_vector_or_scalar_f32 returns Ok exactly for F32, Vec2, Vec3, Vec4; and
\* pow, floor, ceil, round, mix, dot, cross, length and normalized reject a
\* Mat4 receiver.
C30_VectorChecksRejectMatrix ==
    last.op # "none" /\ Typed =>
        LET t == Ty(1)
            o == Origin("argument 'self' of", last.op)
        IN  /\ t \in {"Mat4", "Sampler2D"} =>
                  /\ ~ensure_vector_or_scalar(t, o).ok
                  /\ ~ensure_vector_or_scalar_f32(t, o).ok
                  /\ ~ensure_vector(t, o).ok
                  /\ ~ensure_vector_f32(t, o).ok
            /\ ensure_vector(t, o).ok <=> IsVector(t)
            /\ ensure_vector_f32(t, o).ok <=> IsVector(t)
            /\ ensure_vector_or_scalar_f32(t, o).ok <=> t \in {"F32"} \cup {"Vec2", "Vec3", "Vec4"}
            /\ last.op \in VectorCheckedOps /\ t = "Mat4" => Rejected

\* the part of C30 about the builders alone
C30_BuildersRejectMatrix ==
    last.op \in VectorCheckedOps /\ Typed /\ Ty(1) = "Mat4" => Rejected

(***************************************************************************)
(* Failing merges of parameter registries (SpecParams)                     *)
(***************************************************************************)
\* C26 (as claimed): when append(other) returns an error the receiving registry
\* is exactly as it was before the call: no parameter of other that precedes
\* the conflicting one has been added.
C26_FailedAppendKeepsReceiver ==
    [][last'.op = "append" /\ last'.out.kind = "err" => parameters' = parameters]_vars

(***************************************************************************)
(* A vertex stage without named outputs (Spec)                             *)
(***************************************************************************)
LinkFailed ==
    Failed("vertex", Error("Failed to link fragment inputs to vertex outputs", NoOrigin))

\* C27: when the vertex callback returns Ok with the vertex position set and no
\* named output, generate fails with the fragment-input link error and the
\* fragment callback is not invoked; generate succeeds only when the vertex
\* stage declared at least one named output.
C27_NoNamedOutputFailsLink ==
    /\ [][VertexReturnOk /\ vertex_position(outputs) # NoExpr /\ outputs.outputs = <<>>
            => /\ pc' = "done"
               /\ result' = LinkFailed
               /\ calls' = calls
               /\ calls'.fragment = 0]_vars
    /\ [](result = LinkFailed => calls.fragment = 0 /\ fragment = NoFragment)
    /\ [](result = Generated => Len(vertex.code.outputs) >= 1)

\* C27 witness: generate ended with the link error, the fragment callback was
\* not invoked
C27_Witness ==
    /\ pc = "done"
    /\ result = LinkFailed
    /\ calls = [vertex |-> 1, fragment |-> 0]

(***************************************************************************)
(* Properties of an outputs registry (Spec, SpecOutputs)                   *)
(***************************************************************************)
\* C23 (as claimed): every named output's declared type, the one written in its
\* out declaration and handed to the fragment input of that name, equals the
\* derived type of the expression currently bound to it, also after the name
\* was set again with an expression of another type.
C23_DeclaredTypeIsDerived ==
    \A i \in DOMAIN Named :
        /\ shader_type(Named[i].expression) = OkT(Named[i].value_type)
        /\ output_decls(outputs)[i].type
              = glsl_name(shader_type(Named[i].expression).ty)

\* the locations an output of type value_type at location occupies
LocationRange(location, value_type) ==
    location .. (location + location_count(value_type) - 1)

\* C24 (as claimed): the location ranges of the named outputs of one stage are
\* pairwise disjoint when each occupies location_count(type) locations from its
\* location on (4 for a Mat4); the same holds for the fragment inputs derived
\* from them; in the fragment stage no range contains the reserved location 0.
C24_DisjointLocationRanges ==
    /\ \A i, j \in DOMAIN Named :
          i # j =>
              LocationRange(Named[i].location, Named[i].value_type)
                  \cap LocationRange(Named[j].location, Named[j].value_type) = {}
    /\ LET fi == fragment_inputs(outputs).val
       IN  \A i, j \in DOMAIN fi :
              i # j =>
                  LocationRange(fi[i].location, fi[i].value_type)
                      \cap LocationRange(fi[j].location, fi[j].value_type) = {}
    /\ outputs.stage = "Fragment" =>
          \A i \in DOMAIN Named :
              0 \notin LocationRange(Named[i].location, Named[i].value_type)

\* the state part of C29: names are distinct and every output has an expression
OutputsBound ==
    /\ \A i, j \in DOMAIN Named : Named[i].name = Named[j].name => i = j
    /\ \A i \in DOMAIN Named : Named[i].expression # NoExpr

\* the step part of C29
OutputsKept ==
    /\ Len(outputs'.outputs) >= Len(Named)
    /\ last'.op = "set" /\ last'.out.kind = "err" =>
          /\ ~shader_type(cur').ok
          /\ outputs' = outputs
    /\ last'.op = "set" /\ ~shader_type(cur').ok /\ ~has_output(outputs, last'.name) =>
          last'.out.kind = "err"

\* C29: after any sequence of set, set_vertex_position and set_fragment_color
\* calls the named outputs have pairwise distinct names, each has a bound
\* expression, their number never decreases, and a set call that returns an
\* error (its expression has no defined type) leaves the registry unchanged.
C29_OutputsRegistry == []OutputsBound /\ [][OutputsKept]_vars

\* C29 witness: a set call with an expression without a type was refused on a
\* fragment registry that holds one output of another name and the fragment color
C29_Witness ==
    /\ last.op = "set" /\ last.out.kind = "err"
    /\ ~shader_type(cur).ok
    /\ Len(Named) = 1
    /\ Named[1].name # last.name
    /\ fragment_color(outputs) # NoExpr

\* the fragment stage that follows a vertex registry: the callback samples
\* texture at (0.5, 0.5), level 0.0, and binds the sample to the fragment color;
\* the outcome of rendering that stage
SampledStage(fis, texture) ==
    LET s == sample(texture, LitVec2("0.5", "0.5"), LitF32("0.0"))
        bound == set_fragment_color(ShaderOutputs_new("Fragment"), s.node)
    IN  IF s.kind # "ok" THEN "rejected"
        ELSE IF bound.kind # "ok" THEN "rejected"
        ELSE generate_fragment_shader(fis, ShaderParameters_new, bound.self).kind

\* C25 (as claimed): rendering every expression the builders accepted and a
\* callback bound to a named output or a built-in slot completes without
\* aborting; in particular a sample renders for every receiver sample()
\* accepts, a uniform reference or a stage input of type Sampler2D forwarded
\* from the vertex stage.
C25_RenderingCompletes ==
    /\ ~body_panics(vertex_position(outputs), outputs)
    /\ ~body_panics(fragment_color(outputs), outputs)
    /\ SampledStage(<<>>, Uniform("font_texture", "Sampler2D")) # "panic"
    /\ outputs.stage = "Vertex" /\ fragment_inputs(outputs).ok =>
          LET fis == fragment_inputs(outputs).val
          IN  \A i \in DOMAIN fis : SampledStage(fis, to_expression(fis[i])) # "panic"

(***************************************************************************)
(* Uniform declarations of the two stages (SpecParams)                     *)
(***************************************************************************)
\* no identifier is declared twice in a sequence of declarations
DeclaredOnce(decls) == \A i, j \in DOMAIN decls : decls[i].name = decls[j].name => i = j

\* C28 (as claimed): in the source of each stage every uniform identifier is
\* declared at most once, whatever parameters the callback registered: the
\* <name>_min and <name>_max declarations written for a sampler never coincide
\* with the declaration of a parameter registered under that name.
C28_UniformsDeclaredOnce ==
    /\ DeclaredOnce(uniform_decls(parameters))
    /\ DeclaredOnce(fragment_uniform_decls(parameters))

====
